---- MODULE Spec2Model ----
(***************************************************************************)
(* Leon Analytics: the Cloudflare Worker of src/index.js over the D1 table *)
(* `visits`.  The worker's fetch handler is modelled route by route; the   *)
(* event table is the sequence `log` of rows in insertion order.  The      *)
(* script of the dashboard page the worker serves is modelled as the       *)
(* record `client`.                                                        *)
(*                                                                         *)
(* Strings that the code trims, compares or orders (site ids, the site     *)
(* filter) are sequences of one-character strings; strings that are only   *)
(* stored and compared for equality (path, ip, country, credentials) are   *)
(* TLA+ strings.  An absent JSON field, header or query parameter is a     *)
(* record without that field.                                              *)
(***************************************************************************)
EXTENDS Integers, Sequences, FiniteSets, TLC

VARIABLES
    env,    \* the worker's bindings: DB and, when configured, ADMIN_PASSWORD
    log,    \* the rows of table visits, in insertion order
    agg,    \* the aggregation request in flight, or Idle
    last,   \* the latest request the worker took up and, once answered, its
            \* response, the number of statements its handling ran and, for an
            \* aggregation taken step by step, the number of rows that landed
            \* while it was in flight
    client  \* the dashboard page open in a browser, or NoPage: its stored
            \* token, selected site, refresh timer, login prompt, requests in
            \* flight and the statistics it displays

vars == <<env, log, agg, last, client>>

(***************************************************************************)
(* Bounds of the model.                                                    *)
(***************************************************************************)
\* rows in the table
MaxLog == 2

\* writes that land while one aggregation request is in flight
MaxSkew == 1

(***************************************************************************)
(* Strings as character sequences.                                         *)
(***************************************************************************)
Has(r, f) == f \in DOMAIN r

WhiteSpace == {" ", "\t"}

Chars == <<"\t", " ", "a", "b", "c", "d", "e", "f", "g", "h", "l", "o", "p", "r", "s", "t", "u">>

\* position of a character in the (ascending) code-point order of Chars
Code(c) == CHOOSE i \in 1..Len(Chars) : Chars[i] = c

s_blog == <<"b", "l", "o", "g">>

s_shop == <<"s", "h", "o", "p">>

s_all == <<"a", "l", "l">>

s_broadcast == <<"b", "r", "o", "a", "d", "c", "a", "s", "t">>

s_default == <<"d", "e", "f", "a", "u", "l", "t">>

RECURSIVE trimStart(_)
trimStart(s) ==
    IF s = <<>> THEN s
    ELSE IF Head(s) \in WhiteSpace THEN trimStart(Tail(s)) ELSE s

RECURSIVE trimEnd(_)
trimEnd(s) ==
    IF s = <<>> THEN s
    ELSE IF s[Len(s)] \in WhiteSpace THEN trimEnd(SubSeq(s, 1, Len(s) - 1)) ELSE s

\* String.prototype.trim
trim(s) == trimEnd(trimStart(s))

\* s < t in code-point order (SQLite BINARY collation, ORDER BY site_id ASC)
RECURSIVE StrLess(_, _)
StrLess(s, t) ==
    IF t = <<>> THEN FALSE
    ELSE IF s = <<>> THEN TRUE
    ELSE IF Head(s) = Head(t) THEN StrLess(Tail(s), Tail(t))
    ELSE Code(Head(s)) < Code(Head(t))

(***************************************************************************)
(* Static configuration.                                                   *)
(***************************************************************************)
\* an empty blocklist
BLOCKED_SITE_IDS_Empty == {}

BLOCKED_SITE_IDS == {s_broadcast}

(***************************************************************************)
(* Storage: the D1 table `visits` and the statements run against it.       *)
(***************************************************************************)
LIMIT_COUNTRIES == 50

LIMIT_RECENT == 100

LIMIT_TOP_SITES == 100

Min(a, b) == IF a < b THEN a ELSE b

\* a limit that keeps the last n rows of the ordered result
Limit_Last(s, n) == SubSeq(s, Len(s) - Min(n, Len(s)) + 1, Len(s))

\* LIMIT n
Limit(s, n) == SubSeq(s, 1, Min(n, Len(s)))

Reverse(s) == [i \in 1..Len(s) |-> s[Len(s) + 1 - i]]

\* an id taken from the number of rows of one site: the same for the first
\* event of every site
NextId_PerSite(rows) ==
    IF rows = <<>> THEN 1
    ELSE Len(SelectSeq(rows, LAMBDA r : r.site_id = rows[Len(rows)].site_id)) + 1

\* id INTEGER PRIMARY KEY AUTOINCREMENT: larger than every id handed out so
\* far; no row is ever deleted, so that is the id of the newest row plus one
NextId(rows) == IF rows = <<>> THEN 1 ELSE rows[Len(rows)].id + 1

\* timestamp DATETIME DEFAULT CURRENT_TIMESTAMP: the reading of the storage
\* clock at insert; the clock is taken to tick once between two inserts
CurrentTimestamp(rows) == Len(rows)

\* an insert that puts the new row in front of the table
InsertVisit_Prepend(rows, site_id, ip, country, path) ==
    <<[id |-> NextId(rows), site_id |-> site_id, ip |-> ip,
       country |-> country, path |-> path,
       timestamp |-> CurrentTimestamp(rows)]>> \o rows

\* an insert that skips an event the table already holds
InsertVisit_Dedup(rows, site_id, ip, country, path) ==
    IF \E i \in 1..Len(rows) :
          /\ rows[i].site_id = site_id /\ rows[i].ip = ip
          /\ rows[i].country = country /\ rows[i].path = path
    THEN rows
    ELSE Append(rows, [id |-> NextId(rows), site_id |-> site_id, ip |-> ip,
                       country |-> country, path |-> path,
                       timestamp |-> CurrentTimestamp(rows)])

\* an insert whose bind() passes country and ip in each other's place
InsertVisit_BindSwapped(rows, site_id, ip, country, path) ==
    Append(rows, [id |-> NextId(rows), site_id |-> site_id, ip |-> country,
                  country |-> ip, path |-> path,
                  timestamp |-> CurrentTimestamp(rows)])

\* an insert that replaces the rows the table holds for the same ip
InsertVisit_Upsert(rows, site_id, ip, country, path) ==
    Append(SelectSeq(rows, LAMBDA r : r.ip # ip),
           [id |-> NextId(rows), site_id |-> site_id, ip |-> ip,
            country |-> country, path |-> path,
            timestamp |-> CurrentTimestamp(rows)])

\* INSERT INTO visits (site_id, ip, country, path) VALUES (?, ?, ?, ?)
InsertVisit(rows, site_id, ip, country, path) ==
    Append(rows, [id |-> NextId(rows), site_id |-> site_id, ip |-> ip,
                  country |-> country, path |-> path,
                  timestamp |-> CurrentTimestamp(rows)])

\* FROM visits ${whereClause}, bound to params
Matching(rows, whereClause, params) ==
    IF whereClause = "" THEN rows
    ELSE SelectSeq(rows, LAMBDA r : r.site_id = params[1])

Range(s) == {s[i] : i \in 1..Len(s)}

\* ORDER BY count ASC
RECURSIVE ByCountDesc_Ascending(_)
ByCountDesc_Ascending(G) ==
    IF G = {} THEN {<<>>}
    ELSE UNION {{<<g>> \o rest : rest \in ByCountDesc_Ascending(G \ {g})} :
                g \in {h \in G : \A k \in G : h.count <= k.count}}

\* the orders ORDER BY count DESC allows for a set of groups: rows of equal
\* count come in any order
RECURSIVE ByCountDesc(_)
ByCountDesc(G) ==
    IF G = {} THEN {<<>>}
    ELSE UNION {{<<g>> \o rest : rest \in ByCountDesc(G \ {g})} :
                g \in {h \in G : \A k \in G : k.count <= h.count}}

\* ORDER BY site_id DESC
RECURSIVE BySiteIdAsc_Descending(_)
BySiteIdAsc_Descending(S) ==
    IF S = {} THEN <<>>
    ELSE LET m == CHOOSE x \in S : \A y \in S \ {x} : StrLess(y, x)
         IN <<[site_id |-> m]>> \o BySiteIdAsc_Descending(S \ {m})

\* ORDER BY site_id ASC over a set of distinct site ids
RECURSIVE BySiteIdAsc(_)
BySiteIdAsc(S) ==
    IF S = {} THEN <<>>
    ELSE LET m == CHOOSE x \in S : \A y \in S \ {x} : StrLess(x, y)
         IN <<[site_id |-> m]>> \o BySiteIdAsc(S \ {m})

\* statement 1 without ${whereClause}
QueryTotal_Unfiltered(rows, whereClause, params) ==
    {[count |-> Len(rows)]}

\* 1. SELECT COUNT(*) as count FROM visits ${whereClause}
QueryTotal(rows, whereClause, params) ==
    {[count |-> Len(Matching(rows, whereClause, params))]}

\* statement 2 with COUNT(ip): every matching row counts
QueryUnique_EveryRow(rows, whereClause, params) ==
    {[count |-> Len(Matching(rows, whereClause, params))]}

\* statement 2 without ${whereClause}
QueryUnique_Unfiltered(rows, whereClause, params) ==
    {[count |-> Cardinality({r.ip : r \in Range(rows)})]}

\* 2. SELECT COUNT(DISTINCT ip) as count FROM visits ${whereClause}
QueryUnique(rows, whereClause, params) ==
    {[count |-> Cardinality({r.ip : r \in Range(Matching(rows, whereClause, params))})]}

\* statement 3 with COUNT(DISTINCT ip): the visitors of each country
QueryCountries_DistinctIp(rows, whereClause, params) ==
    LET m == Matching(rows, whereClause, params)
        G == {[country |-> c,
               count |-> Cardinality({r.ip : r \in {x \in Range(m) : x.country = c}})] :
              c \in {r.country : r \in Range(m)}}
    IN {[results |-> Limit(o, LIMIT_COUNTRIES)] : o \in ByCountDesc(G)}

\* 3. SELECT country, COUNT(*) as count FROM visits ${whereClause}
\*    GROUP BY country ORDER BY count DESC LIMIT 50
QueryCountries(rows, whereClause, params) ==
    LET m == Matching(rows, whereClause, params)
        G == {[country |-> c, count |-> Len(SelectSeq(m, LAMBDA r : r.country = c))] :
              c \in {r.country : r \in Range(m)}}
    IN {[results |-> Limit(o, LIMIT_COUNTRIES)] : o \in ByCountDesc(G)}

\* statement 4 with ORDER BY id ASC
QueryRecent_Ascending(rows, whereClause, params) ==
    {[results |-> Limit(Matching(rows, whereClause, params), LIMIT_RECENT)]}

\* 4. SELECT * FROM visits ${whereClause} ORDER BY id DESC LIMIT 100
QueryRecent(rows, whereClause, params) ==
    {[results |-> Limit(Reverse(Matching(rows, whereClause, params)), LIMIT_RECENT)]}

\* statement 5 with ${whereClause}
QuerySites_Filtered(rows, whereClause, params) ==
    {[results |-> BySiteIdAsc({r.site_id : r \in Range(Matching(rows, whereClause, params))})]}

\* 5. SELECT DISTINCT site_id FROM visits ORDER BY site_id ASC
QuerySites(rows, whereClause, params) ==
    {[results |-> BySiteIdAsc({r.site_id : r \in Range(Matching(rows, "", <<>>))})]}

\* 6. SELECT site_id, COUNT(*) as count FROM visits GROUP BY site_id
\*    ORDER BY count DESC LIMIT 100
QueryTopSites(rows, whereClause, params) ==
    LET m == Matching(rows, "", <<>>)
        G == {[site_id |-> s, count |-> Len(SelectSeq(m, LAMBDA r : r.site_id = s))] :
              s \in {r.site_id : r \in Range(m)}}
    IN {[results |-> Limit(o, LIMIT_TOP_SITES)] : o \in ByCountDesc(G)}

Queries == {"totalResult", "uniqueResult", "countriesResult", "recentResult",
            "sitesResult", "topSitesResult"}

\* the results storage may give for statement q of the Promise.all, run on rows
QueryResults(q, rows, whereClause, params) ==
    CASE q = "totalResult"     -> QueryTotal(rows, whereClause, params)
      [] q = "uniqueResult"    -> QueryUnique(rows, whereClause, params)
      [] q = "countriesResult" -> QueryCountries(rows, whereClause, params)
      [] q = "recentResult"    -> QueryRecent(rows, whereClause, params)
      [] q = "sitesResult"     -> QuerySites(rows, whereClause, params)
      [] q = "topSitesResult"  -> QueryTopSites(rows, whereClause, params)

(***************************************************************************)
(* Requests and responses.                                                 *)
(***************************************************************************)
NoFields == [f \in {} |-> f]

Request(method, path, headers, cf, query, body) ==
    [method |-> method, path |-> path, headers |-> headers, cf |-> cf,
     query |-> query, body |-> body]

\* a body request.json() parses to the record data / a body it throws on
Json(data) == [json |-> TRUE, data |-> data]

Malformed == [json |-> FALSE]

\* new Response(JSON.stringify(body), { status, headers: corsHeaders })
Response(status, body) == [status |-> status, body |-> body]

\* a catch that answers with the default status
ServerError_Status200(message) == Response(200, [error |-> message])

\* catch (err): { error: err.message } with status 500
ServerError(message) == Response(500, [error |-> message])

\* x.f with no fallback: the empty string for an absent field
OrElse_NoFallback(x, f, fallback) == IF Has(x, f) THEN x[f] ELSE ""

\* x.f ?? fallback: the fallback for an absent field only
OrElse_AbsentOnly(x, f, fallback) == IF Has(x, f) THEN x[f] ELSE fallback

\* x.f || fallback, for a string field f of x that may be absent
OrElse(x, f, fallback) == IF Has(x, f) /\ x[f] # "" THEN x[f] ELSE fallback

\* routing that sends /api/track to the ingestion handler whatever the method
Route_AnyMethod(request) ==
    IF request.method = "OPTIONS" THEN "preflight"
    ELSE IF request.path = "/api/track" THEN "track"
    ELSE IF request.path = "/api/stats" THEN "stats"
    ELSE IF request.path = "/" THEN "dashboard"
    ELSE "notfound"

\* which branch of fetch a request takes
Route(request) ==
    IF request.method = "OPTIONS" THEN "preflight"
    ELSE IF request.path = "/api/track" /\ request.method = "POST" THEN "track"
    ELSE IF request.path = "/api/stats" THEN "stats"
    ELSE IF request.path = "/" THEN "dashboard"
    ELSE "notfound"

(***************************************************************************)
(* POST /api/track                                                         *)
(***************************************************************************)
\* the site id as sent, with no default
siteId_NoDefault(data) ==
    IF Has(data, "site_id") THEN data.site_id ELSE <<>>

\* the ternary without its trim() test
siteId_NoTrim(data) ==
    IF Has(data, "site_id") /\ data.site_id # <<>> THEN data.site_id ELSE s_default

\* data.site_id && data.site_id.trim() !== "" ? data.site_id : "default"
siteId(data) ==
    IF Has(data, "site_id") /\ data.site_id # <<>> /\ trim(data.site_id) # <<>>
    THEN data.site_id
    ELSE s_default

\* a blocklist check that never matches
blocked_Never(site) == FALSE

\* BLOCKED_SITE_IDS.includes(siteId)
blocked(site) == site \in BLOCKED_SITE_IDS

\* the blocklist branch answering as the insert branch does
Ignored_AsOk == Response(200, [status |-> "ok"])

\* { status: "ignored" }, with the default status 200
Ignored == Response(200, [status |-> "ignored"])

\* the handler behind the access guard of /api/stats
track_Guarded(request, e, rows, insertOk) ==
    IF ~(Has(e, "ADMIN_PASSWORD") /\ e.ADMIN_PASSWORD # "")
    THEN [resp |-> ServerError("Server Config Error: ADMIN_PASSWORD not set."),
          rows |-> rows, dbOps |-> 0]
    ELSE IF ~(Has(request.headers, "Authorization")
              /\ request.headers.Authorization = e.ADMIN_PASSWORD)
    THEN [resp |-> Response(401, [error |-> "Unauthorized"]), rows |-> rows, dbOps |-> 0]
    ELSE IF ~e.DB
    THEN [resp |-> ServerError("Server Error: env.DB is not defined."),
          rows |-> rows, dbOps |-> 0]
    ELSE IF ~request.body.json
    THEN [resp |-> ServerError("SyntaxError"), rows |-> rows, dbOps |-> 0]
    ELSE LET data    == request.body.data
             country == OrElse(request.cf, "country", "Unknown")
             ip      == OrElse(request.headers, "CF-Connecting-IP", "0.0.0.0")
             site    == siteId(data)
         IN IF blocked(site)
            THEN [resp |-> Ignored, rows |-> rows, dbOps |-> 0]
            ELSE IF ~insertOk
            THEN [resp |-> ServerError("D1_ERROR"), rows |-> rows, dbOps |-> 1]
            ELSE [resp |-> Response(200, [status |-> "ok"]),
                  rows |-> InsertVisit(rows, site, ip, country,
                                       OrElse(data, "path", "/")),
                  dbOps |-> 1]

\* the handler taking ip and country from the body when the body has them
track_TrustsBody(request, e, rows, insertOk) ==
    IF ~e.DB
    THEN [resp |-> ServerError("Server Error: env.DB is not defined."),
          rows |-> rows, dbOps |-> 0]
    ELSE IF ~request.body.json
    THEN [resp |-> ServerError("SyntaxError"), rows |-> rows, dbOps |-> 0]
    ELSE LET data    == request.body.data
             country == OrElse(data, "country", OrElse(request.cf, "country", "Unknown"))
             ip      == OrElse(data, "ip",
                               OrElse(request.headers, "CF-Connecting-IP", "0.0.0.0"))
             site    == siteId(data)
         IN IF blocked(site)
            THEN [resp |-> Ignored, rows |-> rows, dbOps |-> 0]
            ELSE IF ~insertOk
            THEN [resp |-> ServerError("D1_ERROR"), rows |-> rows, dbOps |-> 1]
            ELSE [resp |-> Response(200, [status |-> "ok"]),
                  rows |-> InsertVisit(rows, site, ip, country,
                                       OrElse(data, "path", "/")),
                  dbOps |-> 1]

\* The handler's outcome on table rows: the response, the table afterwards
\* and the number of statements run.  insertOk: whether storage accepts the
\* INSERT.
track(request, e, rows, insertOk) ==
    IF ~e.DB
    THEN [resp |-> ServerError("Server Error: env.DB is not defined."),
          rows |-> rows, dbOps |-> 0]
    ELSE IF ~request.body.json
    THEN [resp |-> ServerError("SyntaxError"), rows |-> rows, dbOps |-> 0]
    ELSE LET data    == request.body.data
             country == OrElse(request.cf, "country", "Unknown")
             ip      == OrElse(request.headers, "CF-Connecting-IP", "0.0.0.0")
             site    == siteId(data)
         IN IF blocked(site)
            THEN [resp |-> Ignored, rows |-> rows, dbOps |-> 0]
            ELSE IF ~insertOk
            THEN [resp |-> ServerError("D1_ERROR"), rows |-> rows, dbOps |-> 1]
            ELSE [resp |-> Response(200, [status |-> "ok"]),
                  rows |-> InsertVisit(rows, site, ip, country,
                                       OrElse(data, "path", "/")),
                  dbOps |-> 1]

Track(request, insertOk) ==
    /\ Route(request) = "track"
    /\ LET out == track(request, env, log, insertOk)
       IN /\ log' = out.rows
          /\ last' = [op |-> "track", req |-> request, resp |-> out.resp,
                      dbOps |-> out.dbOps]
    /\ UNCHANGED <<env, client, agg>>

(***************************************************************************)
(* GET /api/stats                                                          *)
(***************************************************************************)
Idle == [pc |-> "idle"]

\* { error: "Unauthorized" } with status 401
Unauthorized == Response(401, [error |-> "Unauthorized"])

\* the filter trimmed before it is bound
siteFilter_Trimmed(request) ==
    LET filtered == /\ Has(request.query, "site_id")
                    /\ trim(request.query.site_id) # <<>>
                    /\ trim(request.query.site_id) # s_all
    IN [run |-> TRUE,
        whereClause |-> IF filtered THEN "WHERE site_id = ?" ELSE "",
        params |-> IF filtered THEN <<trim(request.query.site_id)>> ELSE <<>>]

\* WHERE site_id = ? bound to the filter, unless it is absent, empty or "all"
siteFilter(request) ==
    LET filtered == /\ Has(request.query, "site_id")
                    /\ request.query.site_id # <<>>
                    /\ request.query.site_id # s_all
    IN [run |-> TRUE,
        whereClause |-> IF filtered THEN "WHERE site_id = ?" ELSE "",
        params |-> IF filtered THEN <<request.query.site_id>> ELSE <<>>]

\* the guard without the comparison of the credential
statsGuard_NoCompare(request, e) ==
    IF ~(Has(e, "ADMIN_PASSWORD") /\ e.ADMIN_PASSWORD # "")
    THEN [run |-> FALSE,
          resp |-> ServerError("Server Config Error: ADMIN_PASSWORD not set.")]
    ELSE IF ~e.DB
    THEN [run |-> FALSE, resp |-> ServerError("Database Error: env.DB undefined")]
    ELSE siteFilter(request)

\* the guard comparing the credential before it looks for the secret: with
\* no secret, authHeader !== undefined holds for every request
statsGuard_CompareFirst(request, e) ==
    IF ~(Has(e, "ADMIN_PASSWORD") /\ Has(request.headers, "Authorization")
         /\ request.headers.Authorization = e.ADMIN_PASSWORD)
    THEN [run |-> FALSE, resp |-> Unauthorized]
    ELSE IF e.ADMIN_PASSWORD = ""
    THEN [run |-> FALSE,
          resp |-> ServerError("Server Config Error: ADMIN_PASSWORD not set.")]
    ELSE IF ~e.DB
    THEN [run |-> FALSE, resp |-> ServerError("Database Error: env.DB undefined")]
    ELSE siteFilter(request)

\* the guard letting every request through that carries a credential
statsGuard_AnyCredential(request, e) ==
    IF ~(Has(e, "ADMIN_PASSWORD") /\ e.ADMIN_PASSWORD # "")
    THEN [run |-> FALSE,
          resp |-> ServerError("Server Config Error: ADMIN_PASSWORD not set.")]
    ELSE IF ~Has(request.headers, "Authorization")
    THEN [run |-> FALSE, resp |-> Unauthorized]
    ELSE IF ~e.DB
    THEN [run |-> FALSE, resp |-> ServerError("Database Error: env.DB undefined")]
    ELSE siteFilter(request)

\* lines 61-79: the access guard and the filter; "run" when the six
\* statements are to be issued, otherwise the response that ends the request
statsGuard(request, e) ==
    IF ~(Has(e, "ADMIN_PASSWORD") /\ e.ADMIN_PASSWORD # "")
    THEN [run |-> FALSE,
          resp |-> ServerError("Server Config Error: ADMIN_PASSWORD not set.")]
    ELSE IF ~(Has(request.headers, "Authorization")
              /\ request.headers.Authorization = e.ADMIN_PASSWORD)
    THEN [run |-> FALSE, resp |-> Unauthorized]
    ELSE IF ~e.DB
    THEN [run |-> FALSE, resp |-> ServerError("Database Error: env.DB undefined")]
    ELSE siteFilter(request)

\* lines 97-104
payload(results) ==
    [total    |-> results.totalResult.count,
     unique   |-> results.uniqueResult.count,
     countries |-> results.countriesResult.results,
     recent   |-> results.recentResult.results,
     sites    |-> [i \in 1..Len(results.sitesResult.results) |->
                     results.sitesResult.results[i].site_id],
     topSites |-> results.topSitesResult.results]

\* The handler's outcomes when no other request runs between its start and
\* its response: every statement reads the same table rows.
stats(request, e, rows) ==
    LET g == statsGuard(request, e)
    IN IF ~g.run THEN {[resp |-> g.resp, dbOps |-> 0]}
       ELSE {[resp |-> Response(200, payload(results)), dbOps |-> Cardinality(Queries)] :
             results \in [totalResult     : QueryTotal(rows, g.whereClause, g.params),
                          uniqueResult    : QueryUnique(rows, g.whereClause, g.params),
                          countriesResult : QueryCountries(rows, g.whereClause, g.params),
                          recentResult    : QueryRecent(rows, g.whereClause, g.params),
                          sitesResult     : QuerySites(rows, g.whereClause, g.params),
                          topSitesResult  : QueryTopSites(rows, g.whereClause, g.params)]}

\* a whole aggregation request, handled with no other request in between
Stats(request) ==
    /\ Route(request) = "stats"
    /\ agg = Idle
    /\ \E out \in stats(request, env, log) :
          last' = [op |-> "stats", req |-> request, resp |-> out.resp,
                   dbOps |-> out.dbOps]
    /\ UNCHANGED <<env, client, log, agg>>

\* a guard with a lockout: the request that follows an Unauthorized answer is
\* answered Unauthorized as well
StatsAfter_Lockout(request) ==
    /\ Route(request) = "stats"
    /\ agg = Idle
    /\ \E out \in stats(request, env, log) :
          last' = [op |-> "stats", req |-> request,
                   resp |-> IF last.op = "stats" /\ last.resp.status = 401
                            THEN Unauthorized ELSE out.resp,
                   dbOps |-> IF last.op = "stats" /\ last.resp.status = 401
                             THEN 0 ELSE out.dbOps,
                   earlier |-> IF last.op = "stats"
                               THEN Append(last.earlier, last.resp.status) ELSE <<>>]
    /\ UNCHANGED <<env, client, log, agg>>

\* a whole aggregation request as in Stats, remembering the statuses of the
\* aggregation requests answered just before it
StatsAfter(request) ==
    /\ Route(request) = "stats"
    /\ agg = Idle
    /\ \E out \in stats(request, env, log) :
          last' = [op |-> "stats", req |-> request, resp |-> out.resp,
                   dbOps |-> out.dbOps,
                   earlier |-> IF last.op = "stats"
                               THEN Append(last.earlier, last.resp.status) ELSE <<>>]
    /\ UNCHANGED <<env, client, log, agg>>

\* The same request step by step, other requests running in between: the
\* request arrives, the guard runs and, if it passes, Promise.all issues the
\* six statements
StatsBegin(request) ==
    /\ Route(request) = "stats"
    /\ agg = Idle
    /\ LET g == statsGuard(request, env)
       IN IF g.run
          THEN /\ agg' = [pc |-> "queries", req |-> request,
                          whereClause |-> g.whereClause, params |-> g.params,
                          startLen |-> Len(log),
                          results |-> NoFields]
               /\ last' = [op |-> "stats", req |-> request]
          ELSE /\ agg' = Idle
               /\ last' = [op |-> "stats", req |-> request, resp |-> g.resp,
                           dbOps |-> 0]
    /\ UNCHANGED <<env, client, log>>

\* storage running an issued statement on a table state from before the
\* request: the table without its newest row
StatsQuery_Stale(q) ==
    /\ agg.pc = "queries"
    /\ q \notin DOMAIN agg.results
    /\ \E r \in QueryResults(q, SubSeq(log, 1, Len(log) - 1), agg.whereClause, agg.params) :
          agg' = [agg EXCEPT !.results = (q :> r) @@ @]
    /\ UNCHANGED <<env, client, log, last>>

\* storage runs one of the issued statements on the table as it is now
StatsQuery(q) ==
    /\ agg.pc = "queries"
    /\ q \notin DOMAIN agg.results
    /\ \E r \in QueryResults(q, log, agg.whereClause, agg.params) :
          agg' = [agg EXCEPT !.results = (q :> r) @@ @]
    /\ UNCHANGED <<env, client, log, last>>

\* a catch that answers with the error and the total, if that has resolved
StatsQueryFail_Partial(q) ==
    /\ agg.pc = "queries"
    /\ q \notin DOMAIN agg.results
    /\ agg' = Idle
    /\ last' = [op |-> "stats", req |-> agg.req,
                resp |-> IF "totalResult" \in DOMAIN agg.results
                         THEN Response(500, [error |-> "D1_ERROR",
                                             total |-> agg.results.totalResult.count])
                         ELSE ServerError("D1_ERROR"),
                dbOps |-> Cardinality(Queries)]
    /\ UNCHANGED <<env, client, log>>

\* one of the issued statements fails: Promise.all rejects, the catch answers
StatsQueryFail(q) ==
    /\ agg.pc = "queries"
    /\ q \notin DOMAIN agg.results
    /\ agg' = Idle
    /\ last' = [op |-> "stats", req |-> agg.req, resp |-> ServerError("D1_ERROR"),
                dbOps |-> Cardinality(Queries)]
    /\ UNCHANGED <<env, client, log>>

\* a response that goes out when five of the six have resolved, the missing
\* view taking the payload's default (0, [])
StatsRespond_Early ==
    /\ agg.pc = "queries"
    /\ Cardinality(DOMAIN agg.results) >= Cardinality(Queries) - 1
    /\ agg' = Idle
    /\ last' = [op |-> "stats", req |-> agg.req,
                resp |-> Response(200, payload(agg.results
                                               @@ [q \in Queries |-> [count |-> 0, results |-> <<>>]])),
                dbOps |-> Cardinality(Queries), landed |-> Len(log) - agg.startLen]
    /\ UNCHANGED <<env, client, log>>

\* all six have resolved: the payload is assembled and returned
StatsRespond ==
    /\ agg.pc = "queries"
    /\ DOMAIN agg.results = Queries
    /\ agg' = Idle
    /\ last' = [op |-> "stats", req |-> agg.req,
                resp |-> Response(200, payload(agg.results)),
                dbOps |-> Cardinality(Queries), landed |-> Len(log) - agg.startLen]
    /\ UNCHANGED <<env, client, log>>

(***************************************************************************)
(* The other routes.                                                       *)
(***************************************************************************)
\* if (request.method === "OPTIONS")
Preflight(request) ==
    /\ Route(request) = "preflight"
    /\ last' = [op |-> "preflight", req |-> request,
                resp |-> Response(200, NoFields), dbOps |-> 0]
    /\ UNCHANGED <<env, client, log, agg>>

\* the dashboard page, and "Not Found" for everything else
Page(request) ==
    /\ Route(request) \in {"dashboard", "notfound"}
    /\ last' = [op |-> Route(request), req |-> request,
                resp |-> IF Route(request) = "dashboard"
                         THEN Response(200, [html |-> "htmlDashboard"])
                         ELSE Response(404, [text |-> "Not Found"]),
                dbOps |-> 0]
    /\ UNCHANGED <<env, client, log, agg>>

(***************************************************************************)
(* The dashboard page: the script of htmlDashboard.                        *)
(***************************************************************************)
\* no browser has the page open
NoPage == [page |-> "closed"]

(***************************************************************************)
(* The requests the model draws from.                                      *)
(***************************************************************************)
\* the deployment: with or without the secret, with or without the binding
Envs == {[DB |-> d] : d \in BOOLEAN}
        \cup {[DB |-> d, ADMIN_PASSWORD |-> "s3cret"] : d \in BOOLEAN}

SiteIdInputs == {<<>>, <<" ">>, s_blog, <<" ">> \o s_blog,
                 s_broadcast, s_broadcast \o <<" ">>}

Edge == [ip |-> "203.0.113.7", country |-> "US"]

\* transport metadata: the connecting address header and the edge's region
Transport(ip, country) ==
    [headers |-> IF ip = "" THEN NoFields ELSE ("CF-Connecting-IP" :> ip),
     cf |-> IF country = "" THEN NoFields ELSE [country |-> country]]

Transports == {Transport(ip, c) : ip \in {"", Edge.ip}, c \in {"", Edge.country}}

TrackPost(tr, body) ==
    Request("POST", "/api/track", tr.headers, tr.cf, NoFields, body)

\* the request with its Authorization header set to credential, or without
\* the header for the credential ""
WithCredential(request, credential) ==
    LET others == [h \in DOMAIN request.headers \ {"Authorization"} |-> request.headers[h]]
    IN [request EXCEPT !.headers = IF credential = "" THEN others
                                   ELSE ("Authorization" :> credential) @@ others]

\* a body that declares an address and a region of its own
Declared == [site_id |-> s_blog, path |-> "/post/1", ip |-> "10.0.0.1", country |-> "ZZ"]

TrackRequests ==
    LET edge == Transport(Edge.ip, Edge.country)
    IN \* every site id, with and without a path
       {TrackPost(edge, Json([site_id |-> s, path |-> "/post/1"])) : s \in SiteIdInputs}
       \cup {TrackPost(edge, Json([site_id |-> s])) : s \in {s_blog, s_broadcast}}
       \cup {TrackPost(edge, Json([path |-> "/post/1"])), TrackPost(edge, Json(NoFields)),
             TrackPost(edge, Malformed)}
       \* a path that is supplied and empty
       \cup {TrackPost(edge, Json([site_id |-> s_blog, path |-> ""]))}
       \* every transport
       \cup {TrackPost(tr, Json([site_id |-> s_blog, path |-> "/post/1"])) :
             tr \in Transports}
       \* bodies that carry ip and country, with and without transport metadata
       \cup {TrackPost(tr, Json(Declared)) : tr \in {edge, Transport("", "")}}
       \* calls that carry a credential
       \cup {WithCredential(TrackPost(edge, Json([site_id |-> s_blog, path |-> "/post/1"])), c) :
             c \in {"wrong", "s3cret"}}

\* none, the secret, another one, the secret followed / preceded by more text
Credentials == {"", "s3cret", "wrong", "s3cret ", "Bearer s3cret"}

SiteFilters == {<<>>, s_all, s_blog, <<" ">> \o s_blog, s_broadcast}

StatsGet(credential, query) ==
    Request("GET", "/api/stats",
            IF credential = "" THEN NoFields ELSE [Authorization |-> credential],
            NoFields, query, Malformed)

StatsRequests ==
    {StatsGet(c, q) : c \in Credentials,
                      q \in {NoFields} \cup {[site_id |-> f] : f \in SiteFilters}}

OtherRequests ==
    {Request(m, p, NoFields, NoFields, NoFields, Malformed) :
        m \in {"OPTIONS", "GET"}, p \in {"/api/track", "/", "/favicon.ico"}}
    \* a visit report sent with another method than POST
    \cup {[TrackPost(Transport(Edge.ip, Edge.country),
                     Json([site_id |-> s_blog, path |-> "/post/1"]))
           EXCEPT !.method = "PUT"]}

(***************************************************************************)
(* The system, one request at a time.                                      *)
(***************************************************************************)
Init ==
    /\ env \in Envs
    /\ log = <<>>
    /\ agg = Idle
    /\ last = [op |-> "none"]
    /\ client = NoPage

Next ==
    \/ /\ Len(log) < MaxLog
       /\ \E request \in TrackRequests \cup OtherRequests, insertOk \in BOOLEAN :
             Track(request, insertOk)
    \/ \E request \in StatsRequests : Stats(request)
    \/ \E request \in OtherRequests : Preflight(request)
    \/ \E request \in OtherRequests : Page(request)

Spec == Init /\ [][Next]_vars

(***************************************************************************)
(* The system with an aggregation request taken step by step: its six      *)
(* statements run in any order, and ingestion writes land in between.      *)
(***************************************************************************)
\* rows in the table
MaxFanLog == 3

Visitor == [ip |-> "198.51.100.9", country |-> "DE"]

FanTrackRequests ==
    {TrackPost(Transport(Edge.ip, Edge.country), Json([site_id |-> s_blog, path |-> "/post/1"])),
     TrackPost(Transport(Edge.ip, Edge.country), Json([site_id |-> s_shop, path |-> "/post/1"])),
     TrackPost(Transport(Visitor.ip, Visitor.country), Json([site_id |-> s_blog]))}

FanStatsRequests ==
    {StatsGet("s3cret", q) : q \in {NoFields, [site_id |-> s_blog]}}
    \cup {r \in StatsRequests : ~Has(r.headers, "Authorization")
                                \/ r.headers.Authorization # "s3cret"}

NextFanOut ==
    \/ /\ Len(log) < MaxFanLog
       /\ agg # Idle => Len(log) - agg.startLen < MaxSkew
       /\ \E request \in FanTrackRequests, insertOk \in BOOLEAN :
             Track(request, insertOk)
    \/ \E request \in FanStatsRequests : StatsBegin(request)
    \/ \E q \in Queries : StatsQuery(q)
    \/ \E q \in Queries : StatsQueryFail(q)
    \/ StatsRespond

SpecFanOut == Init /\ [][NextFanOut]_vars

(***************************************************************************)
(* The system as a run of aggregation requests, one after the other, each  *)
(* remembering how the ones before it were answered.                       *)
(***************************************************************************)
\* earlier aggregation answers a request remembers
MaxEarlier == 2

\* rows in the table
MaxGuardLog == 1

GuardStatsRequests ==
    {StatsGet(c, q) : c \in Credentials, q \in {NoFields, [site_id |-> s_blog]}}

NextGuard ==
    \/ /\ Len(log) < MaxGuardLog
       /\ \E request \in FanTrackRequests, insertOk \in BOOLEAN :
             Track(request, insertOk)
    \/ /\ last.op = "stats" => Len(last.earlier) < MaxEarlier
       /\ \E request \in GuardStatsRequests : StatsAfter(request)

SpecGuard == Init /\ [][NextGuard]_vars

(***************************************************************************)
(* The system as a history: ingestion calls and whole aggregation          *)
(* requests, one after the other, each carrying along the latest payload   *)
(* that was returned for every site filter before it.                      *)
(***************************************************************************)
\* rows in the table
MaxHistoryLog == 2

\* an ingestion call as in Track; seen maps a site filter to the payload the
\* latest aggregation request with that filter, answered before this call,
\* was given
TrackAfter(request, insertOk) ==
    /\ Route(request) = "track"
    /\ LET out    == track(request, env, log, insertOk)
           before == IF Has(last, "seen") THEN last.seen ELSE NoFields
       IN /\ log' = out.rows
          /\ last' = [op |-> "track", req |-> request, resp |-> out.resp,
                      dbOps |-> out.dbOps,
                      seen |-> IF last.op = "stats" /\ last.resp.status = 200
                               THEN (last.req.query :> last.resp.body) @@ before
                               ELSE before]
    /\ UNCHANGED <<env, client, agg>>

\* a whole aggregation request as in Stats; seen as in TrackAfter, the
\* request's own answer not included
StatsSince(request) ==
    /\ Route(request) = "stats"
    /\ agg = Idle
    /\ LET before == IF Has(last, "seen") THEN last.seen ELSE NoFields
       IN \E out \in stats(request, env, log) :
             last' = [op |-> "stats", req |-> request, resp |-> out.resp,
                      dbOps |-> out.dbOps,
                      seen |-> IF last.op = "stats" /\ last.resp.status = 200
                               THEN (last.req.query :> last.resp.body) @@ before
                               ELSE before]
    /\ UNCHANGED <<env, client, log, agg>>

HistoryStatsRequests ==
    {StatsGet("s3cret", q) : q \in {NoFields, [site_id |-> s_blog], [site_id |-> s_shop]}}
    \cup {StatsGet("wrong", NoFields)}

NextHistory ==
    \/ /\ Len(log) < MaxHistoryLog
       /\ \E request \in FanTrackRequests, insertOk \in BOOLEAN :
             TrackAfter(request, insertOk)
    \/ \E request \in HistoryStatsRequests : StatsSince(request)

SpecHistory == Init /\ [][NextHistory]_vars

(***************************************************************************)
(* The system with the dashboard page open in a browser: the page's script *)
(* sends aggregation requests, the worker answers them, and the answers    *)
(* reach the script in any order.                                          *)
(***************************************************************************)
\* calls of loadData that reach their fetch
MaxFetches == 3

\* rows in the table
MaxClientLog == 1

\* what a user types into the login prompt, or a browser has kept in
\* localStorage from an earlier visit
ClientTokens == {"s3cret", "wrong"}

\* the options of the site selectors
ClientSites == {s_all, s_blog}

\* the login prompt is on screen: #login-modal has neither class hidden nor
\* the style unlockDashboard gives it
ModalShown ==
    client.page = "open" /\ ~client.modalHidden /\ ~client.modalDisplayNone

\* startAutoRefresh(): the interval is set, an earlier one having been cleared
startAutoRefresh(c) == [c EXCEPT !.autoRefresh = TRUE]

\* unlockDashboard(): the prompt fades out and gets display none (the 300 ms
\* between the two are not modelled), the timer is started
unlockDashboard(c) == startAutoRefresh([c EXCEPT !.modalDisplayNone = TRUE])

\* loadData(token, silent) up to its await: nothing without a token,
\* otherwise a request for the selected site is sent
loadData(c, token, silent) ==
    IF token = "" THEN c
    ELSE [c EXCEPT !.issued = @ + 1,
                   !.fetches = @ \cup {[n |-> c.issued + 1, token |-> token,
                                        site |-> c.currentSiteId, silent |-> silent]}]

\* loadData from its await on, for the request f answered with resp
loadDataAnswered(c, f, resp) ==
    IF resp.status = 401
    THEN \* catch, "PASSCODE INVALID"
         [c EXCEPT !.loginError = TRUE, !.token = "", !.autoRefresh = FALSE]
    ELSE IF Has(resp.body, "error")
    THEN \* catch, any other message
         c
    ELSE LET stored   == [c EXCEPT !.token = f.token, !.loginError = FALSE]
             unlocked == IF ~stored.modalDisplayNone
                         THEN unlockDashboard(stored) ELSE stored
         IN [unlocked EXCEPT !.shown = [site |-> f.site, data |-> resp.body]]

\* the page is opened and its script runs initSystem(), savedToken being the
\* token localStorage holds ("" for none)
InitSystem(savedToken) ==
    /\ client = NoPage
    /\ LET page == [page |-> "open", token |-> savedToken, currentSiteId |-> s_all,
                    autoRefresh |-> FALSE, modalHidden |-> TRUE,
                    modalDisplayNone |-> FALSE, loginError |-> FALSE,
                    fetches |-> {}, issued |-> 0, shown |-> NoFields]
       IN client' = IF savedToken # ""
                    THEN startAutoRefresh(loadData(unlockDashboard(page), savedToken, FALSE))
                    ELSE [page EXCEPT !.modalHidden = FALSE]
    /\ UNCHANGED <<env, log, agg, last>>

\* handleLogin(e): the login form is submitted with password in its input
HandleLogin(password) ==
    /\ ModalShown
    /\ client.issued < MaxFetches
    /\ client' = loadData(client, password, FALSE)
    /\ UNCHANGED <<env, log, agg, last>>

\* changeSite(siteId), option being the siteId: an option of a site selector
\* is chosen; the selectors are behind the login prompt while that is on screen
ChangeSite(option) ==
    /\ client.page = "open" /\ ~ModalShown
    /\ client.issued < MaxFetches
    /\ client' = loadData([client EXCEPT !.currentSiteId = option], client.token, FALSE)
    /\ UNCHANGED <<env, log, agg, last>>

\* the interval of startAutoRefresh fires
AutoRefreshTick ==
    /\ client.page = "open" /\ client.autoRefresh
    /\ client.token # ""
    /\ client.issued < MaxFetches
    /\ client' = loadData(client, client.token, TRUE)
    /\ UNCHANGED <<env, log, agg, last>>

\* the worker handles the request f of the page, as in Stats, and the
\* response reaches loadData
LoadDataAnswered(f) ==
    /\ client.page = "open" /\ f \in client.fetches
    /\ agg = Idle
    /\ LET request == StatsGet(f.token, [site_id |-> f.site])
       IN \E out \in stats(request, env, log) :
             /\ last' = [op |-> "stats", req |-> request, resp |-> out.resp,
                         dbOps |-> out.dbOps]
             /\ client' = loadDataAnswered([client EXCEPT !.fetches = @ \ {f}],
                                           f, out.resp)
    /\ UNCHANGED <<env, log, agg>>

\* the requests of the page that are in flight
Fetches == IF client.page = "open" THEN client.fetches ELSE {}

NextClient ==
    \/ /\ Len(log) < MaxClientLog
       /\ \E request \in FanTrackRequests, insertOk \in BOOLEAN :
             Track(request, insertOk)
    \/ \E savedToken \in ClientTokens \cup {""} : InitSystem(savedToken)
    \/ \E password \in ClientTokens : HandleLogin(password)
    \/ \E option \in ClientSites : ChangeSite(option)
    \/ AutoRefreshTick
    \/ \E f \in Fetches : LoadDataAnswered(f)

SpecClient == Init /\ [][NextClient]_vars

(***************************************************************************)
(* Vocabulary of the properties.                                           *)
(***************************************************************************)
Answered == Has(last, "resp")

\* the latest request was an ingestion call whose body parsed, with storage bound
TrackParsed == last.op = "track" /\ env.DB /\ last.req.body.json

TrackRecorded ==
    last.op = "track" /\ last.resp.status = 200 /\ last.resp.body.status = "ok"

TrackIgnored ==
    last.op = "track" /\ last.resp.status = 200 /\ last.resp.body.status = "ignored"

StatsAnswered == last.op = "stats" /\ Answered

StatsOk == StatsAnswered /\ last.resp.status = 200

Newest == log[Len(log)]

\* a deployment with the secret configured and the table bound
Deployed == [DB |-> TRUE, ADMIN_PASSWORD |-> "s3cret"]

\* the payloads an authorized aggregation with site_id = site may return on rows
Snapshots(rows, site) ==
    {out.resp.body : out \in stats(StatsGet("s3cret", [site_id |-> site]), Deployed, rows)}

HasSecret == Has(env, "ADMIN_PASSWORD") /\ env.ADMIN_PASSWORD # ""

\* the request carries exactly the configured secret
Authorized(request) ==
    /\ HasSecret
    /\ Has(request.headers, "Authorization")
    /\ request.headers.Authorization = env.ADMIN_PASSWORD

\* the clause and parameters an authorized aggregation with site_id = site runs
FilterOf(site) == siteFilter(StatsGet("s3cret", [site_id |-> site]))

\* the values the known-sites / top-sites / unique view of such a request
\* may take on rows
SitesViews(rows, site) ==
    {[i \in 1..Len(r.results) |-> r.results[i].site_id] :
       r \in QuerySites(rows, FilterOf(site).whereClause, FilterOf(site).params)}

TopSitesViews(rows, site) ==
    {r.results : r \in QueryTopSites(rows, FilterOf(site).whereClause, FilterOf(site).params)}

UniqueViews(rows, site) ==
    {r.count : r \in QueryUnique(rows, FilterOf(site).whereClause, FilterOf(site).params)}

\* every row of the table reports the same event: the calls were identical
Identical(rows) ==
    \A i \in 1..Len(rows) :
       /\ rows[i].site_id = rows[1].site_id /\ rows[i].ip = rows[1].ip
       /\ rows[i].country = rows[1].country /\ rows[i].path = rows[1].path

\* the request's site filter names no site: absent, empty or "all"
Unfiltered(request) ==
    \/ ~Has(request.query, "site_id")
    \/ request.query.site_id = <<>>
    \/ request.query.site_id = s_all

\* the events of rows that the request's site filter selects
Selected(rows, request) ==
    IF Unfiltered(request) THEN rows
    ELSE SelectSeq(rows, LAMBDA r : r.site_id = request.query.site_id)

\* A table larger than the limits of statements 3 and 6: more sites than
\* LIMIT_TOP_SITES and more countries than LIMIT_COUNTRIES; the g-th of its
\* sites has g events, so no two sites and no two countries have the same
\* count.
BusySites == LIMIT_TOP_SITES + 1

CountryCodes ==
    <<"AD", "AE", "AF", "AG", "AL", "AM", "AO", "AR", "AT", "AU", "AZ", "BA", "BD",
      "BE", "BF", "BG", "BH", "BI", "BJ", "BN", "BO", "BR", "BT", "BW", "BY", "BZ",
      "CA", "CD", "CF", "CG", "CH", "CI", "CL", "CM", "CN", "CO", "CR", "CU", "CV",
      "CY", "CZ", "DE", "DJ", "DK", "DO", "DZ", "EC", "EE", "EG", "ER", "ES">>

\* the site an event of the busy table belongs to: the g with
\* g(g-1)/2 < k <= g(g+1)/2
BusySiteOf(k, sites) ==
    CHOOSE g \in 1..sites : (g * (g - 1)) \div 2 < k /\ k <= (g * (g + 1)) \div 2

BusyLog(sites) ==
    [k \in 1..((sites * (sites + 1)) \div 2) |->
        LET g == BusySiteOf(k, sites)
        IN [id |-> k,
            site_id |-> <<Chars[(g \div Len(Chars)) + 1], Chars[(g % Len(Chars)) + 1]>>,
            ip |-> Edge.ip,
            country |-> CountryCodes[((g - 1) % Len(CountryCodes)) + 1],
            path |-> "/",
            timestamp |-> k - 1]]

\* sites of a busy table that holds just more events than LIMIT_RECENT
FeedSites == 14

\* the columns of table visits
Columns == {"id", "site_id", "ip", "country", "path", "timestamp"}

\* list is ordered by non-increasing count and names no key twice
Ranked(list, key) ==
    \A i, j \in 1..Len(list) :
       i < j => /\ list[i].count >= list[j].count
                /\ list[i][key] # list[j][key]

\* the table states that existed while the answered aggregation request was
\* in flight: the table is append-only, so they are the prefixes of the
\* table from its length at the start of the request to its length now
Window == {SubSeq(log, 1, n) : n \in (Len(log) - last.landed)..Len(log)}

\* the payloads the answered request gets on the single table state rows
OnState(rows) == {out.resp.body : out \in stats(last.req, env, rows)}

\* the distinct ip values among the events of rows that satisfy Test
Visitors(rows, Test(_)) == {rows[i].ip : i \in {k \in 1..Len(rows) : Test(rows[k])}}

\* s comes before t in lexicographic order: at the first position where they
\* differ s has the smaller character, or s ends there and t does not
Precedes(s, t) ==
    \E k \in 1..Len(t) :
       /\ \A i \in 1..(k - 1) : i <= Len(s) /\ s[i] = t[i]
       /\ \/ Len(s) = k - 1
          \/ Len(s) >= k /\ Code(s[k]) < Code(t[k])

\* the sum of the counts of a top list
RECURSIVE SumCounts(_)
SumCounts(list) ==
    IF list = <<>> THEN 0 ELSE Head(list).count + SumCounts(Tail(list))

\* the login prompt is on screen with its error text
LoginPresented == ModalShown /\ client.loginError

\* the step hands the page the answer to one of its requests
Delivered ==
    /\ client.page = "open"
    /\ client'.issued = client.issued
    /\ client'.fetches # client.fetches

\* the six views of an aggregation payload
Views == {"total", "unique", "countries", "recent", "sites", "topSites"}

\* r differs from the request q only in whether its site id is blocklisted
Twin(r, q) ==
    /\ r.body.json /\ q.body.json
    /\ r.headers = q.headers /\ r.cf = q.cf
    /\ Has(r.body.data, "path") = Has(q.body.data, "path")
    /\ blocked(siteId(r.body.data)) # blocked(siteId(q.body.data))

\* the body carries no usable site_id: none, the empty one, whitespace only
Blank(data) == ~Has(data, "site_id") \/ trim(data.site_id) = <<>>

(***************************************************************************)
(* C1: an accepted ingestion call with a site id that is not blocklisted   *)
(* appends exactly one row: the total an aggregation filtered to that site *)
(* returns is exactly 1 higher than before the call, and the new event is  *)
(* the first entry of that site's recent feed.                             *)
(***************************************************************************)
C1_AcceptedCallAppendsOneRow ==
  [][
    (last'.op = "track" /\ last'.resp.status = 200 /\ last'.resp.body.status = "ok"
        /\ <<log, last>>' # <<log, last>>)
    => LET site == siteId(last'.req.body.data)
       IN /\ Len(log') = Len(log) + 1
          /\ SubSeq(log', 1, Len(log)) = log
          /\ log'[Len(log')].site_id = site
          /\ \A before \in Snapshots(log, site), after \in Snapshots(log', site) :
                /\ after.total = before.total + 1
                /\ after.recent[1] = log'[Len(log')]
  ]_vars

\* a call recorded on top of an earlier event of the same site
C1_Witness ==
    /\ TrackRecorded
    /\ Len(log) = 2
    /\ log[1].site_id = log[2].site_id

(***************************************************************************)
(* C2: an ingestion call whose site id is in the static blocklist is       *)
(* answered with HTTP success and status "ignored", however often it is    *)
(* repeated; no row is written and the total for that site is never        *)
(* incremented.                                                            *)
(***************************************************************************)
C2_BlocklistedCallIgnored ==
  [][
    (/\ last'.op = "track" /\ env.DB /\ last'.req.body.json
     /\ Has(last'.req.body.data, "site_id")
     /\ last'.req.body.data.site_id \in BLOCKED_SITE_IDS)
    => /\ last'.resp = Response(200, [status |-> "ignored"])
       /\ last'.dbOps = 0
       /\ log' = log
       /\ \A s \in BLOCKED_SITE_IDS : \A snap \in Snapshots(log', s) : snap.total = 0
  ]_vars

\* a blocklisted call answered after events of other sites were recorded
C2_Witness ==
    /\ TrackIgnored
    /\ last.req.body.data.site_id \in BLOCKED_SITE_IDS
    /\ Len(log) >= 1

(***************************************************************************)
(* C3: an aggregation request whose credential is missing or differs from  *)
(* the configured secret fails before any statement is run against         *)
(* storage, whatever its site filter.                                      *)
(***************************************************************************)
C3_UnauthorizedRunsNoStatement ==
    /\ agg.pc = "queries" => Authorized(agg.req)
    /\ (last.op = "stats" /\ ~Answered) => Authorized(last.req)
    /\ (StatsAnswered /\ ~Authorized(last.req))
       => /\ last.resp.status \in {401, 500}
          /\ DOMAIN last.resp.body = {"error"}
          /\ last.dbOps = 0

\* a wrong credential with a specific site filter, on a table that has rows
C3_Witness ==
    /\ StatsAnswered /\ HasSecret /\ env.DB
    /\ Has(last.req.headers, "Authorization")
    /\ last.req.headers.Authorization # env.ADMIN_PASSWORD
    /\ Has(last.req.query, "site_id") /\ last.req.query.site_id = s_blog
    /\ Len(log) >= 1

(***************************************************************************)
(* C4, as claimed: in every aggregation response the unique count is at    *)
(* most the total count, also when ingestion writes land between the       *)
(* total and the unique statement of the request.                          *)
(***************************************************************************)
C4_UniqueAtMostTotalAlways ==
    StatsOk => last.resp.body.unique <= last.resp.body.total

(***************************************************************************)
(* C4, amended: in every aggregation response of a request during which    *)
(* no ingestion write landed, the unique count is at most the total count. *)
(***************************************************************************)
C4_UniqueAtMostTotalWithoutWrites ==
    (StatsOk /\ last.landed = 0) => last.resp.body.unique <= last.resp.body.total

\* a filtered response with fewer visitors than views, no write in flight
C4_Witness ==
    /\ StatsOk /\ last.landed = 0
    /\ Has(last.req.query, "site_id")
    /\ last.resp.body.unique = 1 /\ last.resp.body.total = 2
    /\ Len(log) = 3

(***************************************************************************)
(* C5: on one table, the known-sites and top-sites views of an aggregation *)
(* response are the same for every site filter as for site_id=all.         *)
(***************************************************************************)
C5_SiteViewsIgnoreFilter ==
    /\ \A f \in SiteFilters :
          /\ SitesViews(log, f) = SitesViews(log, s_all)
          /\ TopSitesViews(log, f) = TopSitesViews(log, s_all)
    /\ StatsOk => /\ last.resp.body.sites \in SitesViews(log, s_all)
                  /\ last.resp.body.topSites \in TopSitesViews(log, s_all)

\* a response filtered to one site that lists another site as well
C5_Witness ==
    /\ StatsOk
    /\ Has(last.req.query, "site_id") /\ last.req.query.site_id = s_blog
    /\ last.resp.body.total = 1
    /\ Len(last.resp.body.sites) = 2

(***************************************************************************)
(* C6: the site_id an accepted ingestion call persists is the trimmed      *)
(* input: the supplied site_id without its leading and trailing            *)
(* whitespace, and "default" if the input is empty or absent.              *)
(***************************************************************************)
C6_StoredSiteIdIsTrimmedInput ==
    TrackRecorded
    => LET data == last.req.body.data
       IN Newest.site_id = IF Has(data, "site_id") /\ trim(data.site_id) # <<>>
                           THEN trim(data.site_id)
                           ELSE s_default

(***************************************************************************)
(* C7: an ingestion call with no site_id field, with an empty site_id or   *)
(* with a whitespace-only site_id records an event whose site_id is        *)
(* exactly "default".                                                      *)
(***************************************************************************)
C7_BlankSiteIdRecordsDefault ==
    (TrackParsed /\ Blank(last.req.body.data) /\ last.resp.status = 200)
    => /\ TrackRecorded
       /\ Newest.site_id = s_default

\* a whitespace-only site_id was recorded
C7_Witness ==
    /\ TrackRecorded
    /\ Has(last.req.body.data, "site_id")
    /\ last.req.body.data.site_id = <<" ">>

(***************************************************************************)
(* C8: the blocklist check is applied to the normalized site_id, so a      *)
(* blocklisted id padded with whitespace is ignored and no table state     *)
(* holds an event whose normalized (trimmed) site_id is blocklisted.       *)
(***************************************************************************)
C8_NoRowBlocklistedAfterTrim ==
    /\ \A i \in 1..Len(log) : trim(log[i].site_id) \notin BLOCKED_SITE_IDS
    /\ (TrackParsed /\ Has(last.req.body.data, "site_id")
        /\ trim(last.req.body.data.site_id) \in BLOCKED_SITE_IDS
        /\ last.resp.status = 200)
       => TrackIgnored

(***************************************************************************)
(* C9, as claimed: the response of a successful ingestion call does not    *)
(* reveal whether the report was ignored or recorded: two calls that       *)
(* differ only in whether their site id is blocklisted get the same        *)
(* response.                                                               *)
(***************************************************************************)
C9_ResponseHidesBlocklist ==
    (TrackIgnored \/ TrackRecorded)
    => \A r \in TrackRequests :
          Twin(r, last.req) => track(r, env, log, TRUE).resp = last.resp

(***************************************************************************)
(* C9, amended: both calls get HTTP success (status 200), but the body     *)
(* tells them apart: its status is "ignored" exactly when the site id is   *)
(* blocklisted and "ok" exactly when the event was recorded.               *)
(***************************************************************************)
C9_ResponseTellsIgnoredFromRecorded ==
    (TrackParsed /\ last.resp.status = 200)
    => /\ DOMAIN last.resp.body = {"status"}
       /\ last.resp.body.status = "ignored" <=> blocked(siteId(last.req.body.data))
       /\ last.resp.body.status = "ok" <=> ~blocked(siteId(last.req.body.data))
       /\ \A r \in TrackRequests :
             Twin(r, last.req)
             => /\ track(r, env, log, TRUE).resp.status = 200
                /\ track(r, env, log, TRUE).resp # last.resp

\* a blocklisted call answered on a table that holds recorded events
C9_Witness ==
    /\ TrackIgnored
    /\ Len(log) >= 1
    /\ \E r \in TrackRequests : Twin(r, last.req)

(***************************************************************************)
(* C10: with no secret configured every aggregation request, whatever      *)
(* credential it carries, fails as a configuration error (a server error)  *)
(* distinct from Unauthorized, and no statement is run against storage.    *)
(***************************************************************************)
C10_NoSecretIsConfigurationError ==
    (StatsAnswered /\ ~HasSecret)
    => /\ last.resp = ServerError("Server Config Error: ADMIN_PASSWORD not set.")
       /\ last.resp.status = 500
       /\ last.resp # Unauthorized
       /\ last.dbOps = 0

\* a request carrying a credential, answered by a worker with no secret
C10_Witness ==
    /\ StatsAnswered /\ ~HasSecret /\ env.DB
    /\ Has(last.req.headers, "Authorization")
    /\ Len(log) >= 1

(***************************************************************************)
(* C11: with a secret configured, an aggregation request is answered with  *)
(* statistics only if its Authorization credential is exactly the secret;  *)
(* every other request (another credential, the secret with a prefix or a  *)
(* suffix, no credential) is answered Unauthorized, with a body that       *)
(* carries none of the six views.                                          *)
(***************************************************************************)
C11_OnlyExactCredentialGetsStatistics ==
    (StatsAnswered /\ HasSecret)
    => /\ (DOMAIN last.resp.body \cap Views # {})
          => /\ Has(last.req.headers, "Authorization")
             /\ last.req.headers.Authorization = env.ADMIN_PASSWORD
       /\ ~(Has(last.req.headers, "Authorization")
            /\ last.req.headers.Authorization = env.ADMIN_PASSWORD)
          => /\ last.resp = Unauthorized
             /\ last.resp.status = 401
             /\ DOMAIN last.resp.body \cap Views = {}

\* the secret behind a scheme prefix, sent to a worker whose table has rows
C11_Witness ==
    /\ StatsAnswered /\ HasSecret /\ env.DB
    /\ Has(last.req.headers, "Authorization")
    /\ last.req.headers.Authorization = "Bearer s3cret"
    /\ last.resp = Unauthorized
    /\ Len(log) >= 1

(***************************************************************************)
(* C12: ingestion never deduplicates: every accepted call adds a row, so n *)
(* identical accepted calls from one address leave n rows, and an          *)
(* authorized aggregation filtered to their site returns total = n,        *)
(* unique = 1 and a recent feed whose first entry has their path (three    *)
(* calls for "blog" with path "/post/1": total 3, unique 1, "/post/1").    *)
(***************************************************************************)
C12_IdenticalCallsAddIdenticalRows ==
    /\ [][
          (last'.op = "track" /\ last'.resp.status = 200 /\ last'.resp.body.status = "ok"
              /\ <<log, last>>' # <<log, last>>)
          => /\ Len(log') = Len(log) + 1
             /\ Identical(log')
                => \A snap \in Snapshots(log', log'[1].site_id) :
                      /\ snap.total = Len(log')
                      /\ snap.unique = 1
                      /\ snap.recent[1].path = log'[1].path
        ]_vars
    /\ []((/\ StatsOk /\ last.landed = 0
           /\ Has(last.req.query, "site_id")
           /\ Len(log) >= 1 /\ Identical(log)
           /\ last.req.query.site_id = log[1].site_id)
          => /\ last.resp.body.total = Len(log)
             /\ last.resp.body.unique = 1
             /\ last.resp.body.recent[1].path = log[1].path)

\* three identical calls for "blog" with "/post/1", then the aggregation
C12_Witness ==
    /\ StatsOk /\ last.landed = 0
    /\ Has(last.req.query, "site_id") /\ last.req.query.site_id = s_blog
    /\ Len(log) = 3 /\ Identical(log)
    /\ log[1].site_id = s_blog /\ log[1].path = "/post/1"
    /\ last.resp.body.total = 3 /\ last.resp.body.unique = 1
    /\ last.resp.body.recent[1].path = "/post/1"

(***************************************************************************)
(* C13: whatever ingestion calls were made, the known-sites list of an     *)
(* aggregation response never contains the blocklisted identifier          *)
(* "broadcast", and an ingestion call whose site_id is "broadcast"         *)
(* contributes 0 to the total for site_id=all.                             *)
(***************************************************************************)
C13_BlocklistedNeverAmongKnownSites ==
    /\ [][
          (/\ last'.op = "track" /\ env.DB /\ last'.req.body.json
           /\ Has(last'.req.body.data, "site_id")
           /\ last'.req.body.data.site_id = s_broadcast)
          => \A before \in Snapshots(log, s_all), after \in Snapshots(log', s_all) :
                after.total = before.total
        ]_vars
    /\ [](/\ \A sites \in SitesViews(log, s_all) :
                \A i \in 1..Len(sites) : sites[i] # s_broadcast
          /\ StatsOk => \A i \in 1..Len(last.resp.body.sites) :
                            last.resp.body.sites[i] # s_broadcast)

\* a "broadcast" call answered on a table that holds an event of the site
\* "broadcast " (with a trailing blank), which is listed
C13_Witness ==
    /\ TrackIgnored
    /\ last.req.body.data.site_id = s_broadcast
    /\ Len(log) = 1
    /\ log[1].site_id = s_broadcast \o <<" ">>
    /\ \A snap \in Snapshots(log, s_all) : snap.total = 1 /\ Len(snap.sites) = 1

(***************************************************************************)
(* C14: the event table is append-only: whatever requests are handled, a   *)
(* persisted row is never modified or removed; every step leaves the rows  *)
(* it found in place and unchanged, so every table state extends every     *)
(* earlier one.                                                            *)
(***************************************************************************)
C14_LogIsAppendOnly ==
    [][ /\ Len(log') >= Len(log)
        /\ SubSeq(log', 1, Len(log)) = log
        /\ last'.op # "track" => log' = log
      ]_vars

\* an aggregation answered on a table of two rows persisted one after the other
C14_Witness ==
    /\ StatsOk
    /\ Len(log) = 2
    /\ log[1].id < log[2].id
    /\ last.resp.body.recent = <<log[2], log[1]>>

(***************************************************************************)
(* C15: the ip and country of a persisted event depend only on the         *)
(* transport metadata of the call (the connecting-address header, the      *)
(* region the edge provides): two ingestion calls with the same transport  *)
(* metadata and different bodies, bodies with ip or country fields         *)
(* included, persist the same ip and country.                              *)
(***************************************************************************)
C15_AddressAndRegionFromTransportOnly ==
    TrackRecorded
    => /\ Newest.ip = OrElse(last.req.headers, "CF-Connecting-IP", "0.0.0.0")
       /\ Newest.country = OrElse(last.req.cf, "country", "Unknown")
       /\ \A r \in TrackRequests :
             LET out == track(r, env, log, TRUE)
             IN (/\ r.headers = last.req.headers /\ r.cf = last.req.cf
                 /\ out.rows # log)
                => /\ out.rows[Len(out.rows)].ip = Newest.ip
                   /\ out.rows[Len(out.rows)].country = Newest.country

\* a recorded call whose body declares another address and region
C15_Witness ==
    /\ TrackRecorded
    /\ Has(last.req.body.data, "ip") /\ Has(last.req.body.data, "country")
    /\ Has(last.req.headers, "CF-Connecting-IP")
    /\ Newest.ip = Edge.ip /\ Newest.ip # last.req.body.data.ip
    /\ Newest.country = Edge.country /\ Newest.country # last.req.body.data.country

(***************************************************************************)
(* C16: aggregation is all-or-nothing: when any one of the six statements  *)
(* fails, the request is answered with a server error whose body carries   *)
(* none of the views; no response goes out while statements are still      *)
(* outstanding, and a response that carries any view carries all six.      *)
(***************************************************************************)
C16_AggregationAllOrNothing ==
    /\ (agg.pc = "queries" /\ last.op = "stats") => ~Answered
    /\ StatsAnswered
       => /\ (DOMAIN last.resp.body \cap Views # {})
             => /\ DOMAIN last.resp.body = Views
                /\ last.resp.status = 200
                /\ last.dbOps = Cardinality(Queries)
          /\ last.resp.status # 200
             => /\ last.resp.status \in {401, 500}
                /\ DOMAIN last.resp.body = {"error"}
          /\ (last.dbOps > 0 /\ last.resp.status # 200)
             => last.resp = ServerError("D1_ERROR")

\* a statement failed on a table that has rows: the answer is the error alone
C16_Witness ==
    /\ StatsAnswered
    /\ last.dbOps = Cardinality(Queries)
    /\ last.resp.status = 500
    /\ DOMAIN last.resp.body = {"error"}
    /\ Len(log) >= 1
    /\ agg = Idle

(***************************************************************************)
(* C17: an ingestion call with a malformed body, with the storage handle   *)
(* absent, or whose insert fails is answered with a server error and       *)
(* leaves the event table as it was; the worker does not retry: a call     *)
(* attempts at most one insert.                                            *)
(***************************************************************************)
C17_FailedCallChangesNothing ==
    /\ \A r \in TrackRequests, insertOk \in BOOLEAN :
          LET out == track(r, env, log, insertOk)
          IN /\ out.dbOps <= 1
             /\ (~env.DB \/ ~r.body.json \/ (out.dbOps = 1 /\ ~insertOk))
                => /\ out.resp.status = 500
                   /\ DOMAIN out.resp.body = {"error"}
                   /\ out.rows = log
    /\ last.op = "track"
       => /\ last.dbOps <= 1
          /\ (~env.DB \/ ~last.req.body.json)
             => /\ last.resp.status = 500
                /\ last.dbOps = 0
          /\ last.resp.status = 500 => DOMAIN last.resp.body = {"error"}
          /\ last.resp.status # 500 => (env.DB /\ last.req.body.json)

\* an insert that storage refused, on a table that has rows
C17_Witness ==
    /\ last.op = "track"
    /\ last.resp = ServerError("D1_ERROR")
    /\ last.dbOps = 1
    /\ Len(log) = 1

(***************************************************************************)
(* C18: when the site_id query parameter is absent, empty or "all", the    *)
(* views total, unique, top countries and recent feed are computed over    *)
(* the whole table; for any other value they are computed over exactly the *)
(* events whose site_id equals that value, character for character: no     *)
(* trimming, no partial match.                                             *)
(***************************************************************************)
C18_FilterIsAllOrExactMatch ==
    StatsOk
    => LET sel == Selected(log, last.req)
           b   == last.resp.body
       IN /\ b.total = Len(sel)
          /\ b.unique = Cardinality({sel[i].ip : i \in 1..Len(sel)})
          /\ b.recent = [i \in 1..Len(sel) |-> sel[Len(sel) + 1 - i]]
          /\ Len(b.countries) = Cardinality({sel[i].country : i \in 1..Len(sel)})
          /\ \A k \in 1..Len(b.countries) :
                /\ b.countries[k].count
                   = Cardinality({i \in 1..Len(sel) : sel[i].country = b.countries[k].country})
                /\ b.countries[k].count >= 1
                /\ \A j \in 1..Len(b.countries) :
                      j < k => /\ b.countries[j].country # b.countries[k].country
                               /\ b.countries[j].count >= b.countries[k].count

\* the filter " blog" on a table that holds an event of " blog" and one of "blog"
C18_Witness ==
    /\ StatsOk
    /\ Has(last.req.query, "site_id") /\ last.req.query.site_id = <<" ">> \o s_blog
    /\ Len(log) = 2
    /\ \E i, j \in 1..2 : log[i].site_id = s_blog /\ log[j].site_id = <<" ">> \o s_blog
    /\ last.resp.body.total = 1
    /\ last.resp.body.recent[1].site_id = <<" ">> \o s_blog

(***************************************************************************)
(* C19: ingestion is not gated by the access guard: the outcome of an      *)
(* ingestion call (its response and the table it leaves) is the same       *)
(* whether or not a secret is configured and whatever credential the call  *)
(* carries.                                                                *)
(***************************************************************************)
C19_IngestionIsNotGated ==
    (last.op = "track")
    => LET before == IF TrackRecorded THEN SubSeq(log, 1, Len(log) - 1) ELSE log
       IN \A e \in Envs, c \in Credentials :
             e.DB = env.DB
             => \E insertOk \in BOOLEAN :
                   LET out == track(WithCredential(last.req, c), e, before, insertOk)
                   IN /\ out.resp = last.resp
                      /\ out.rows = log
                      /\ out.dbOps = last.dbOps

\* a call recorded although it carries a credential that is not the secret
C19_Witness ==
    /\ TrackRecorded
    /\ HasSecret
    /\ Has(last.req.headers, "Authorization")
    /\ last.req.headers.Authorization # env.ADMIN_PASSWORD
    /\ Len(log) = 2

(***************************************************************************)
(* C20: in every reachable table state every persisted event has a         *)
(* site_id that is present and not the empty string, so the known-sites    *)
(* and top-sites views never contain a null or empty group.                *)
(***************************************************************************)
C20_SiteIdNeverEmpty ==
    /\ \A i \in 1..Len(log) : Has(log[i], "site_id") /\ log[i].site_id # <<>>
    /\ \A sites \in SitesViews(log, s_all) :
          \A i \in 1..Len(sites) : sites[i] # <<>>
    /\ \A top \in TopSitesViews(log, s_all) :
          \A i \in 1..Len(top) : Has(top[i], "site_id") /\ top[i].site_id # <<>>
    /\ StatsOk
       => /\ \A i \in 1..Len(last.resp.body.sites) : last.resp.body.sites[i] # <<>>
          /\ \A i \in 1..Len(last.resp.body.topSites) :
                last.resp.body.topSites[i].site_id # <<>>

\* an empty site_id was sent and an event recorded for it
C20_Witness ==
    /\ TrackRecorded
    /\ Has(last.req.body.data, "site_id")
    /\ last.req.body.data.site_id = <<>>
    /\ Newest.site_id # <<>>
    /\ \A top \in TopSitesViews(log, s_all) : Len(top) >= 1

(***************************************************************************)
(* C21, as claimed: an authorized aggregation request over a table with no *)
(* matching events (the empty table included) succeeds with total = 0,     *)
(* unique = 0 and empty lists for the list views: top countries, recent    *)
(* feed, known sites and top sites.                                        *)
(***************************************************************************)
C21_NoMatchGivesZeroAndAllListsEmpty ==
    (StatsAnswered /\ Authorized(last.req) /\ env.DB /\ Selected(log, last.req) = <<>>)
    => /\ last.resp.status = 200
       /\ last.resp.body.total = 0 /\ last.resp.body.unique = 0
       /\ last.resp.body.countries = <<>> /\ last.resp.body.recent = <<>>
       /\ last.resp.body.sites = <<>> /\ last.resp.body.topSites = <<>>

(***************************************************************************)
(* C21, amended: an authorized aggregation request over a table with no    *)
(* matching events (the empty table included) is not an error: it succeeds *)
(* with total = 0, unique = 0, an empty top-countries list and an empty    *)
(* recent feed; the known-sites and top-sites lists, which ignore the      *)
(* filter, are empty exactly when the whole table is empty.                *)
(***************************************************************************)
C21_NoMatchGivesZeroAndEmptyFilteredLists ==
    (StatsAnswered /\ Authorized(last.req) /\ env.DB /\ Selected(log, last.req) = <<>>)
    => /\ last.resp.status = 200
       /\ DOMAIN last.resp.body = Views
       /\ last.resp.body.total = 0 /\ last.resp.body.unique = 0
       /\ last.resp.body.countries = <<>> /\ last.resp.body.recent = <<>>
       /\ last.resp.body.sites = <<>> <=> log = <<>>
       /\ last.resp.body.topSites = <<>> <=> log = <<>>

\* a filter that matches none of the events of a table that has some
C21_Witness ==
    /\ StatsOk
    /\ Len(log) >= 1
    /\ Selected(log, last.req) = <<>>
    /\ last.resp.body.total = 0
    /\ last.resp.body.recent = <<>>
    /\ Len(last.resp.body.sites) >= 1

(***************************************************************************)
(* C22: the access guard is stateless: after any number and any order of   *)
(* earlier Unauthorized or successful aggregation requests, the outcome of *)
(* a request is the one its own credential and the configured secret       *)
(* give; a correct credential is never locked out by earlier failures and  *)
(* a wrong one is never admitted because of earlier successes.             *)
(***************************************************************************)
C22_GuardIsStateless ==
    StatsAnswered
    => /\ (Authorized(last.req) /\ env.DB) => last.resp.status = 200
       /\ (HasSecret /\ ~Authorized(last.req)) => last.resp = Unauthorized
       /\ last.resp \in {out.resp : out \in stats(last.req, env, log)}
       /\ last.dbOps = IF Authorized(last.req) /\ env.DB THEN Cardinality(Queries) ELSE 0

\* the secret accepted right after two Unauthorized answers
C22_Witness ==
    /\ StatsOk
    /\ Has(last, "earlier") /\ last.earlier = <<401, 401>>
    /\ Len(log) = 1

(***************************************************************************)
(* C23: missing fields are never an error: with storage available, an      *)
(* ingestion call whose body is a parseable record without site_id,        *)
(* without path or without both is acknowledged as a success, with the     *)
(* defaults applied (site_id "default", path "/"); it never gets a server  *)
(* error.                                                                  *)
(***************************************************************************)
C23_MissingFieldsGetDefaults ==
    /\ \A r \in TrackRequests :
          (/\ env.DB /\ r.body.json
           /\ (~Has(r.body.data, "site_id") \/ ~Has(r.body.data, "path")))
          => LET out == track(r, env, log, TRUE)
             IN /\ out.resp.status = 200
                /\ DOMAIN out.resp.body = {"status"}
    /\ (/\ TrackParsed
        /\ (~Has(last.req.body.data, "site_id") \/ ~Has(last.req.body.data, "path"))
        /\ last.resp # ServerError("D1_ERROR"))
       => /\ TrackRecorded \/ TrackIgnored
          /\ TrackRecorded
             => /\ ~Has(last.req.body.data, "site_id") => Newest.site_id = s_default
                /\ ~Has(last.req.body.data, "path") => Newest.path = "/"

\* a body with neither field, recorded with both defaults
C23_Witness ==
    /\ TrackRecorded
    /\ DOMAIN last.req.body.data = {}
    /\ Newest.site_id = s_default
    /\ Newest.path = "/"

(***************************************************************************)
(* C24: the top-countries and top-sites lists of every aggregation         *)
(* response are sorted by non-increasing count, name each country /        *)
(* site_id at most once and have at most 50 and 100 entries; on a table    *)
(* with more countries and more sites than that, the lists are the 50 and  *)
(* the 100 with the highest counts.                                        *)
(***************************************************************************)
C24_TopListsRankedAndBounded ==
    /\ StatsOk
       => /\ Ranked(last.resp.body.countries, "country")
          /\ Ranked(last.resp.body.topSites, "site_id")
          /\ Len(last.resp.body.countries) <= 50
          /\ Len(last.resp.body.topSites) <= 100
    \* the busy table, examined once: in the state where an aggregation over
    \* three events of one site has been answered
    /\ (/\ StatsOk /\ last.landed = 0 /\ ~Has(last.req.query, "site_id")
        /\ Len(log) = 3 /\ Identical(log) /\ log[1].site_id = s_shop)
       => LET busy == BusyLog(BusySites)
          IN /\ \A c \in QueryCountries(busy, "", <<>>) :
                   /\ Ranked(c.results, "country")
                   /\ Len(c.results) = 50
             /\ \A t \in QueryTopSites(busy, "", <<>>) :
                   /\ Ranked(t.results, "site_id")
                   /\ Len(t.results) = 100
                   /\ t.results[1].count = BusySites
                   /\ t.results[100].count = BusySites - 99

\* a response whose lists rank a country and a site of two events above a
\* country and a site of one
C24_Witness ==
    /\ StatsOk
    /\ Len(last.resp.body.countries) = 2 /\ Len(last.resp.body.topSites) = 2
    /\ last.resp.body.countries[1].count = 2 /\ last.resp.body.countries[2].count = 1
    /\ last.resp.body.topSites[1].count = 2 /\ last.resp.body.topSites[2].count = 1

(***************************************************************************)
(* C25: each of the six views is correct on its own even when ingestion    *)
(* writes land while the aggregation request is in flight: the value of    *)
(* every view is that view computed on one table state that existed        *)
(* between the start and the end of the request, and the returned total    *)
(* lies between the number of matching rows at the start and at the end;   *)
(* different views of one response may belong to different table states.   *)
(***************************************************************************)
C25_EachViewFromOneStateInWindow ==
    StatsOk
    => /\ \A v \in Views :
             \E rows \in Window : \E snap \in OnState(rows) :
                last.resp.body[v] = snap[v]
       /\ Len(Selected(SubSeq(log, 1, Len(log) - last.landed), last.req))
             <= last.resp.body.total
       /\ last.resp.body.total <= Len(Selected(log, last.req))

\* a response whose views belong to different table states: no single state
\* of the window gives all six
C25_Witness ==
    /\ StatsOk
    /\ last.landed = 1
    /\ \A rows \in Window : last.resp.body \notin OnState(rows)
    /\ \A v \in Views : \E rows \in Window : \E snap \in OnState(rows) :
          last.resp.body[v] = snap[v]

(***************************************************************************)
(* C26: with no write landing during an aggregation request, the response  *)
(* payload does not depend on the order in which the six concurrently      *)
(* issued statements complete: it is a payload the request gets when the   *)
(* six run one after the other on the table, the only one when no two      *)
(* groups tie; and the response is produced only after all six have        *)
(* completed.                                                              *)
(***************************************************************************)
C26_PayloadIndependentOfCompletionOrder ==
    /\ (StatsOk /\ last.landed = 0)
       => /\ last.resp.body \in OnState(log)
          /\ Cardinality(OnState(log)) = 1 => OnState(log) = {last.resp.body}
    /\ StatsOk => last.dbOps = Cardinality(Queries)
    /\ agg.pc = "queries"
       => /\ last.op = "stats" => (~Answered /\ last.req = agg.req)
          /\ DOMAIN agg.results \subseteq Queries

\* a response over a table of three events with no ties, no write in flight
C26_Witness ==
    /\ StatsOk /\ last.landed = 0
    /\ Len(log) = 3
    /\ Cardinality(OnState(log)) = 1
    /\ last.resp.body.total = 3 /\ last.resp.body.unique = 2
    /\ Len(last.resp.body.topSites) = 2

(***************************************************************************)
(* C27: the recent feed contains exactly the min(100, number of matching   *)
(* events) most recently inserted matching events, in strictly descending  *)
(* id order, each with all its fields (id, site_id, ip, country, path,     *)
(* timestamp).                                                             *)
(***************************************************************************)
C27_RecentFeedIsNewestFirst ==
    /\ StatsOk
       => LET sel    == Selected(log, last.req)
              recent == last.resp.body.recent
          IN /\ Len(recent) = Min(100, Len(sel))
             /\ \A i \in 1..Len(recent) :
                   /\ recent[i] = sel[Len(sel) + 1 - i]
                   /\ DOMAIN recent[i] = Columns
             /\ \A i, j \in 1..Len(recent) : i < j => recent[i].id > recent[j].id
    \* a table of 105 events, examined once
    /\ (last.op = "none" /\ env = Deployed)
       => \A r \in QueryRecent(BusyLog(FeedSites), "", <<>>) :
             /\ (FeedSites * (FeedSites + 1)) \div 2 > 100
             /\ Len(r.results) = 100
             /\ \A i \in 1..100 :
                   /\ r.results[i].id = (FeedSites * (FeedSites + 1)) \div 2 + 1 - i
                   /\ DOMAIN r.results[i] = Columns

\* a feed filtered to one site of a table that holds events of two
C27_Witness ==
    /\ StatsOk
    /\ Has(last.req.query, "site_id") /\ last.req.query.site_id = s_blog
    /\ Len(log) = 2
    /\ last.resp.body.recent = <<log[2]>>
    /\ log[1].site_id # s_blog

(***************************************************************************)
(* C28: event ids are assigned at insert, strictly increase in insertion   *)
(* order and are never reused: of any two persisted events, in every       *)
(* reachable table state, the one inserted later has the larger id.        *)
(***************************************************************************)
C28_IdsIncreaseWithInsertion ==
    /\ \A i, j \in 1..Len(log) : i < j => log[i].id < log[j].id
    /\ \A i \in 1..Len(log) : Has(log[i], "id") /\ log[i].id >= 1
    /\ TrackRecorded => \A i \in 1..(Len(log) - 1) : log[i].id < Newest.id

\* three events of two sites, the newest with the largest id
C28_Witness ==
    /\ TrackRecorded
    /\ Len(log) = 3
    /\ log[1].site_id # log[2].site_id
    /\ log[1].id < log[2].id /\ log[2].id < log[3].id

(***************************************************************************)
(* C29: the unique count returned for a filter is the number of distinct   *)
(* ip values among the events that match the filter; an ip that occurs     *)
(* under two different sites counts once in the filtered result of each of *)
(* the two sites and once in the unfiltered result.                        *)
(***************************************************************************)
C29_UniqueCountsDistinctAddresses ==
    /\ StatsOk
       => last.resp.body.unique
          = Cardinality({Selected(log, last.req)[i].ip :
                           i \in 1..Len(Selected(log, last.req))})
    /\ UniqueViews(log, s_all) = {Cardinality(Visitors(log, LAMBDA r : TRUE))}
    /\ \A i, j \in 1..Len(log) :
          (log[i].ip = log[j].ip /\ log[i].site_id # log[j].site_id)
          => /\ UniqueViews(log, log[i].site_id)
                = {Cardinality(Visitors(log, LAMBDA r : r.site_id = log[i].site_id))}
             /\ log[i].ip \in Visitors(log, LAMBDA r : r.site_id = log[i].site_id)
             /\ \A n \in UniqueViews(log, s_all) : n < Len(log)

\* one address under two sites: 1 for the filtered site, 1 for the whole table
C29_Witness ==
    /\ StatsOk
    /\ Has(last.req.query, "site_id") /\ last.req.query.site_id = s_blog
    /\ Len(log) = 2
    /\ log[1].ip = log[2].ip /\ log[1].site_id # log[2].site_id
    /\ last.resp.body.unique = 1
    /\ UniqueViews(log, s_all) = {1}

(***************************************************************************)
(* C30: the known-sites list is the set of distinct site_id values of the  *)
(* entire table, each listed once, in ascending lexicographic order: every *)
(* site that has at least one persisted event is listed, whatever the      *)
(* filter of the request.                                                  *)
(***************************************************************************)
C30_KnownSitesAreAllSitesAscending ==
    StatsOk
    => LET sites == last.resp.body.sites
       IN /\ {sites[i] : i \in 1..Len(sites)} = {log[i].site_id : i \in 1..Len(log)}
          /\ Len(sites) = Cardinality({log[i].site_id : i \in 1..Len(log)})
          /\ \A i, j \in 1..Len(sites) : i < j => Precedes(sites[i], sites[j])

\* a request filtered to "blog" that lists " blog" before "blog"
C30_Witness ==
    /\ StatsOk
    /\ Has(last.req.query, "site_id") /\ last.req.query.site_id = s_blog
    /\ last.resp.body.sites = << <<" ">> \o s_blog, s_blog >>
    /\ log[1].site_id = s_blog

(***************************************************************************)
(* C31 as claimed: the path stored by an accepted ingestion call is the    *)
(* path the body supplies, whatever string that is, and is the default "/" *)
(* when the body has no path field.                                        *)
(***************************************************************************)
C31_StoredPathIsSuppliedPath ==
    TrackRecorded
    => LET data == last.req.body.data
       IN /\ Has(data, "path") => Newest.path = data.path
          /\ ~Has(data, "path") => Newest.path = "/"

(***************************************************************************)
(* C31: the path stored by an accepted ingestion call is the path the body *)
(* supplies whenever that is a non-empty string, and is "/" when the path  *)
(* field is absent or is the empty string.                                 *)
(***************************************************************************)
C31_StoredPathIsNonEmptySuppliedPath ==
    TrackRecorded
    => LET data == last.req.body.data
       IN /\ (Has(data, "path") /\ data.path # "") => Newest.path = data.path
          /\ (~Has(data, "path") \/ data.path = "") => Newest.path = "/"

\* a call that supplies the empty path, recorded with path "/"
C31_Witness ==
    /\ TrackRecorded
    /\ Has(last.req.body.data, "path")
    /\ last.req.body.data.path = ""
    /\ Newest.path = "/"

(***************************************************************************)
(* C32: every persisted event has an ip and a country, neither of them     *)
(* null or empty; the ip of a newly recorded event is the connecting       *)
(* address of its call, or "0.0.0.0" when the transport provides none, and *)
(* its country is the region code the edge provides, or the literal        *)
(* "Unknown" when the edge provides none.                                  *)
(***************************************************************************)
C32_EveryEventHasAddressAndRegion ==
    /\ \A i \in 1..Len(log) :
          /\ {"ip", "country"} \subseteq DOMAIN log[i]
          /\ log[i].ip # "" /\ log[i].country # ""
    /\ TrackRecorded
       => /\ Newest.ip = IF Has(last.req.headers, "CF-Connecting-IP")
                         THEN last.req.headers["CF-Connecting-IP"]
                         ELSE "0.0.0.0"
          /\ Newest.country = IF Has(last.req.cf, "country")
                              THEN last.req.cf.country
                              ELSE "Unknown"

\* after an event with the edge's address and region, a call without
\* transport metadata is recorded with both literals
C32_Witness ==
    /\ TrackRecorded
    /\ Len(log) = 2
    /\ log[1].ip = Edge.ip /\ log[1].country = Edge.country
    /\ ~Has(last.req.headers, "CF-Connecting-IP") /\ ~Has(last.req.cf, "country")
    /\ Newest.ip = "0.0.0.0" /\ Newest.country = "Unknown"

(***************************************************************************)
(* C33: the only request that changes the event log is an accepted POST    *)
(* /api/track whose site id is not blocklisted.  Every other request       *)
(* leaves the log as it was: an aggregation request, authorized or not, an *)
(* ingestion call that is ignored or fails, a preflight, a request to      *)
(* /api/track with another method than POST, the dashboard page, an        *)
(* unknown path.                                                           *)
(***************************************************************************)
C33_OnlyAcceptedIngestionChangesLog ==
    [][/\ log' # log
          => /\ last'.op = "track"
             /\ last'.req.method = "POST" /\ last'.req.path = "/api/track"
             /\ TrackRecorded'
             /\ ~blocked(siteId(last'.req.body.data))
       /\ (\/ last'.op \in {"stats", "preflight", "dashboard", "notfound"}
           \/ last'.op = "track" /\ ~TrackRecorded')
          => log' = log]_vars

\* a visit report sent with PUT is answered Not Found, the table keeping
\* the one event it had
C33_Witness ==
    /\ last.op = "notfound"
    /\ last.req.path = "/api/track" /\ last.req.method = "PUT"
    /\ last.req.body.json
    /\ last.resp.status = 404
    /\ Len(log) = 1

(***************************************************************************)
(* C34: counts are monotone over time.  For every site filter, a later     *)
(* authorized aggregation request returns a total and a unique count that  *)
(* are not smaller than those an earlier one with the same filter          *)
(* returned, the earlier one having completed before the later one         *)
(* started, and its known-sites list contains every site of the earlier    *)
(* one's.                                                                  *)
(***************************************************************************)
C34_CountsAreMonotone ==
    (StatsOk /\ last.req.query \in DOMAIN last.seen)
    => LET earlier == last.seen[last.req.query]
           later   == last.resp.body
       IN /\ later.total >= earlier.total
          /\ later.unique >= earlier.unique
          /\ Range(earlier.sites) \subseteq Range(later.sites)

\* an unfiltered request after one event, a second event from another
\* visitor for another site, the same request again: all three have grown
C34_Witness ==
    /\ StatsOk
    /\ last.req.query \in DOMAIN last.seen
    /\ last.seen[last.req.query].total = 1 /\ last.resp.body.total = 2
    /\ last.seen[last.req.query].unique = 1 /\ last.resp.body.unique = 2
    /\ Len(last.seen[last.req.query].sites) = 1 /\ Len(last.resp.body.sites) = 2

(***************************************************************************)
(* C35: the views of one response agree when no write lands during the     *)
(* request: the counts of the top-countries list add up to the total       *)
(* whenever the matching events span at most 50 countries, and with no     *)
(* site filter the counts of the top-sites list add up to the total        *)
(* whenever the table has at most 100 sites.  Both limits are reached on   *)
(* busy tables: one with exactly 50 countries, one with exactly 100 sites  *)
(* (and 51 countries, so that its country counts fall short of the total). *)
(* When a write lands during the request nothing is promised.              *)
(***************************************************************************)
C35_ViewsAddUpWithoutWrites ==
    /\ (StatsOk /\ last.landed = 0)
       => LET views == last.resp.body
              seen  == Selected(log, last.req)
          IN /\ Cardinality({r.country : r \in Range(seen)}) <= LIMIT_COUNTRIES
                => SumCounts(views.countries) = views.total
             /\ (/\ Unfiltered(last.req)
                 /\ Cardinality({r.site_id : r \in Range(log)}) <= LIMIT_TOP_SITES)
                => SumCounts(views.topSites) = views.total
    /\ (/\ StatsOk /\ last.landed = 0 /\ ~Has(last.req.query, "site_id")
        /\ Len(log) = 3 /\ Identical(log) /\ log[1].site_id = s_blog)
       => /\ LET busy == BusyLog(LIMIT_COUNTRIES)
             IN \A c \in QueryCountries(busy, "", <<>>) :
                   /\ Len(c.results) = LIMIT_COUNTRIES
                   /\ SumCounts(c.results) = Len(busy)
          /\ LET busy == BusyLog(LIMIT_TOP_SITES)
             IN /\ \A t \in QueryTopSites(busy, "", <<>>) :
                      /\ Len(t.results) = LIMIT_TOP_SITES
                      /\ SumCounts(t.results) = Len(busy)
                /\ \A c \in QueryCountries(busy, "", <<>>) :
                      SumCounts(c.results) < Len(busy)

\* an unfiltered response over three events of two sites and two
\* countries, no write having landed during the request
C35_Witness ==
    /\ StatsOk /\ last.landed = 0
    /\ Unfiltered(last.req)
    /\ last.resp.body.total = 3
    /\ Len(last.resp.body.countries) = 2 /\ SumCounts(last.resp.body.countries) = 3
    /\ Len(last.resp.body.topSites) = 2 /\ SumCounts(last.resp.body.topSites) = 3

(***************************************************************************)
(* C36 as claimed: when an aggregation request of the dashboard page is    *)
(* answered Unauthorized, the stored token is removed, auto-refresh is     *)
(* stopped and the login prompt is on screen with its error; and the page  *)
(* stores a token only when a request that carried it has just succeeded.  *)
(***************************************************************************)
C36_UnauthorizedForcesLogin ==
    /\ [](StatsAnswered /\ last.resp.status = 401
          => /\ client.token = ""
             /\ ~client.autoRefresh
             /\ LoginPresented)
    /\ [][(client.page = "open" /\ client'.token # client.token /\ client'.token # "")
          => /\ Delivered
             /\ last'.op = "stats" /\ last'.resp.status = 200
             /\ last'.req.headers.Authorization = client'.token]_vars

(***************************************************************************)
(* C37 as claimed: the statistics the dashboard page displays follow the   *)
(* selected site.  Once no request of the page is in flight, what is       *)
(* displayed is what the worker returned for the selected site; and no     *)
(* answer that reaches the page replaces the display with the statistics   *)
(* of another site than the selected one.                                  *)
(***************************************************************************)
C37_DisplayFollowsSelection ==
    /\ []((client.page = "open" /\ client.fetches = {} /\ StatsOk)
          => client.shown.site = client.currentSiteId)
    /\ [][(Delivered /\ StatsOk')
          => client'.shown.site = client'.currentSiteId]_vars

====
